---- MODULE Spec2Model ----
(***************************************************************************)
(* copy2blobstorage: main.py walks a local directory tree, uploads every   *)
(* file whose MD5 differs from the Content-MD5 the blob store reports for  *)
(* its destination blob, and with --sync deletes every listed blob that    *)
(* was not visited.                                                        *)
(*                                                                         *)
(* Strings are sequences of tokens (a token is one path character or one   *)
(* indivisible run of characters), so prefix tests and joins are the ones  *)
(* of the Python string operations.  Byte strings are sequences of byte    *)
(* values.  An optional value (None or a value) is the empty set or a      *)
(* singleton.                                                              *)
(***************************************************************************)
EXTENDS Integers, Sequences, FiniteSets, TLC

\* Most files in the source tree.
MaxFiles == 2
\* Most blobs in the container before the first run.
MaxBlobs == 2

None == {}
Some(v) == {v}

----------------------------------------------------------------------------
(* Byte strings and their MD5 digests.                                     *)

EmptyBytes == <<>>
\* File contents: b"" and b"a".
Datas == { <<>>, <<97>> }

\* hashlib.md5(data).digest() on the contents above (the real digests).
md5(data) ==
    CASE data = <<>>   -> <<212, 29, 140, 217, 143, 0, 178, 4, 233, 128, 9, 152, 236, 248, 66, 126>>
      [] data = <<97>> -> <<12, 193, 117, 185, 192, 241, 182, 168, 49, 195, 153, 226, 105, 119, 38, 97>>
      [] data = <<98>> -> <<146, 235, 95, 254, 230, 174, 47, 236, 58, 215, 28, 119, 117, 49, 87, 143>>

----------------------------------------------------------------------------
(* Path strings.                                                           *)

\* str.lstrip("/")
RECURSIVE LStrip(_)
LStrip(s) == IF s # <<>> /\ Head(s) = "/" THEN LStrip(Tail(s)) ELSE s

\* os.path.join(a, b) (posixpath)
PathJoin(a, b) ==
    IF b # <<>> /\ Head(b) = "/" THEN b
    ELSE IF a = <<>> \/ a[Len(a)] = "/" THEN a \o b
    ELSE a \o <<"/">> \o b

\* The components of a path between its separators, empty ones dropped.
RECURSIVE Components(_, _, _)
Components(s, cur, acc) ==
    IF s = <<>> THEN (IF cur = <<>> THEN acc ELSE Append(acc, cur))
    ELSE IF Head(s) = "/"
         THEN Components(Tail(s), <<>>, IF cur = <<>> THEN acc ELSE Append(acc, cur))
         ELSE Components(Tail(s), Append(cur, Head(s)), acc)

\* Length of the common prefix of two component lists.
RECURSIVE CommonLen(_, _)
CommonLen(p, q) ==
    IF p # <<>> /\ q # <<>> /\ Head(p) = Head(q)
    THEN 1 + CommonLen(Tail(p), Tail(q)) ELSE 0

\* "/".join(parts)
RECURSIVE SepJoin(_)
SepJoin(parts) ==
    IF parts = <<>> THEN <<>>
    ELSE IF Len(parts) = 1 THEN Head(parts)
    ELSE Head(parts) \o <<"/">> \o SepJoin(Tail(parts))

\* os.path.relpath(path, start), both resolved against the same directory.
RelPath(path, start) ==
    LET p == Components(path, <<>>, <<>>)
        q == Components(start, <<>>, <<>>)
        i == CommonLen(p, q)
        ups == [n \in 1..(Len(q) - i) |-> <<"..">>]
        rest == ups \o SubSeq(p, i + 1, Len(p))
    IN  IF rest = <<>> THEN <<".">> ELSE SepJoin(rest)

\* str.startswith, the test list_blobs(name_starts_with=...) applies to names.
StartsWith(s, prefix) ==
    Len(prefix) <= Len(s) /\ SubSeq(s, 1, Len(prefix)) = prefix

----------------------------------------------------------------------------
(* Content types.                                                          *)

OctetStream == "application/octet-stream"

\* mimetypes.types_map after the two overrides of main.py.
types_map ==
    [ext \in {".html", ".map", ".ttf"} |->
        IF ext = ".html" THEN "text/html" ELSE OctetStream]

\* mimetypes.guess_type(path)[0]: the type of the extension, or None.
guess_type(path) ==
    IF path # <<>> /\ path[Len(path)] \in DOMAIN types_map
    THEN Some(types_map[path[Len(path)]]) ELSE None

\* The content type the upload sends.
content_type(path) ==
    IF guess_type(path) = None THEN OctetStream
    ELSE CHOOSE t \in guess_type(path) : TRUE

----------------------------------------------------------------------------
(* Inputs.                                                                 *)

SOURCE == <<"src">>
\* DEST as typed: "/site" and "".
Dests == { <<"/", "site">>, <<>> }

\* Files a source tree can hold: [dir, name], dir relative to SOURCE.
LocalFiles ==
    { [dir |-> <<>>, name |-> <<"b">>],
      [dir |-> <<>>, name |-> <<"a", ".html">>],
      [dir |-> <<"d">>, name |-> <<"a", ".map">>] }

\* Blob names the container can hold before the first run.
BlobNames ==
    { <<"site", "/", "b">>,
      <<"site", "2", "/", "b">>,
      <<"b">> }

\* Properties of a blob before the first run: any content, with no stored
\* Content-MD5 or with the digest of any content.
InitialBlobs ==
    [data : Datas, content_type : {"text/plain"},
     content_md5 : {None} \cup {Some(md5(d)) : d \in Datas}]

SmallSubsets(S, n) == {T \in SUBSET S : Cardinality(T) <= n}

----------------------------------------------------------------------------
VARIABLES
    args,            \* [DEST, sync]: the parsed command line
    tree,            \* the files under SOURCE: file -> contents
    store,           \* the container: blob name -> properties and data
    files_to_keep,   \* set of destination names
    pc,              \* "walk", "file", "sync", "done", "aborted"
    todo,            \* files os.walk has not yielded yet
    cur,             \* the file being processed, as an optional value
    listed,          \* what list_blobs(name_starts_with=dest) returned
    listing,         \* the listed blobs the loop has still to visit
    out,             \* outcome printed per file: file -> "done"/"skipped"/"failed"
    delOut,          \* outcome printed per blob name: "done"/"failed"
    uploadCalls,     \* blob name -> number of upload_blob calls this run
    deleteCalls,     \* blob name -> number of delete_blob calls this run
    run,             \* number of the current invocation
    hist             \* [clean, sound]: see CleanRun and SoundStore

vars == <<args, tree, store, files_to_keep, pc, todo, cur, listed, listing, out, delOut,
          uploadCalls, deleteCalls, run, hist>>

dest == LStrip(args.DEST)

\* os.walk root of a file's directory.
Root(f) == IF f.dir = <<>> THEN SOURCE ELSE PathJoin(SOURCE, f.dir)
path(f) == PathJoin(Root(f), f.name)
dest_path(f) == PathJoin(dest, RelPath(path(f), SOURCE))

NoCalls == [k \in {} |-> 0]
Count(fn, k) == IF k \in DOMAIN fn THEN fn[k] ELSE 0
Bump(fn, k) == (k :> (Count(fn, k) + 1)) @@ fn
Put(fn, k, v) == (k :> v) @@ fn
Remove(fn, k) == [x \in DOMAIN fn \ {k} |-> fn[x]]

\* Every blob's stored Content-MD5 is the digest of the blob's data.
SoundStore(s) == \A k \in DOMAIN s : s[k].content_md5 = Some(md5(s[k].data))

\* The invocation ended normally and printed no "failed" for an upload.
CleanRun == pc = "done" /\ \A f \in DOMAIN out : out[f] # "failed"

Init ==
    \E d \in Dests, s \in BOOLEAN,
       F \in SmallSubsets(LocalFiles, MaxFiles),
       B \in SmallSubsets(BlobNames, MaxBlobs) :
      \E t \in [F -> Datas], b \in [B -> InitialBlobs] :
        /\ args = [DEST |-> d, sync |-> s]
        /\ tree = t
        /\ store = b
        /\ files_to_keep = {}
        /\ pc = "walk"
        /\ todo = F
        /\ cur = None
        /\ listed = {} /\ listing = {}
        /\ out = NoCalls /\ delOut = NoCalls
        /\ uploadCalls = NoCalls /\ deleteCalls = NoCalls
        /\ run = 1
        /\ hist = [clean |-> FALSE, sound |-> SoundStore(b)]

----------------------------------------------------------------------------
(* Upload phase.                                                           *)

\* os.walk is top-down: the files of SOURCE itself come before those of its
\* subdirectories; the order inside one directory is the file system's.
WalkNext(f) ==
    /\ f \in todo
    /\ f.dir # <<>> => \A g \in todo : g.dir # <<>>

\* A keep-set that only gets the names of the files that are uploaded.
KeptIfUploaded(f) ==
    IF Some(md5(tree[f])) # (IF dest_path(f) \in DOMAIN store
                             THEN store[dest_path(f)].content_md5 ELSE Some(EmptyBytes))
    THEN files_to_keep \cup {dest_path(f)} ELSE files_to_keep

\* Line 50: files_to_keep.add(dest_path)
Kept(f) == files_to_keep \cup {dest_path(f)}

\* Lines 46-51: the next file is yielded, its destination name is computed
\* and added to files_to_keep, and "Uploading ..." is printed.
VisitFile ==
    /\ pc = "walk"
    /\ \E f \in todo :
         /\ WalkNext(f)
         /\ files_to_keep' = Kept(f)
         /\ todo' = todo \ {f}
         /\ cur' = Some(f)
    /\ pc' = "file"
    /\ UNCHANGED <<args, tree, store, listed, listing, out, delOut, uploadCalls,
                   deleteCalls, run, hist>>

TheFile == CHOOSE f \in cur : TRUE

\* Line 53 or 58: open() or read() raises; nothing catches it.
OpenFails ==
    /\ pc = "file"
    /\ pc' = "aborted"
    /\ UNCHANGED <<args, tree, store, files_to_keep, todo, cur, listed, listing, out,
                   delOut, uploadCalls, deleteCalls, run, hist>>

\* Line 63: get_blob_properties raises something other than
\* ResourceNotFoundError; nothing catches it.
PropertiesFail ==
    /\ pc = "file"
    /\ pc' = "aborted"
    /\ UNCHANGED <<args, tree, store, files_to_keep, todo, cur, listed, listing, out,
                   delOut, uploadCalls, deleteCalls, run, hist>>

\* A missing blob taken to have the digest of no data.
NotFoundIsMd5OfNothing == Some(md5(EmptyBytes))

\* Line 66: the value taken for a blob that does not exist.
NotFoundMd5 == Some(EmptyBytes)

\* Lines 62-66: the stored Content-MD5 of the destination blob (None when the
\* blob has none), or b"" when the blob does not exist.
dest_md5(f) ==
    IF dest_path(f) \in DOMAIN store
    THEN store[dest_path(f)].content_md5
    ELSE NotFoundMd5

md5_hash(f) == Some(md5(tree[f]))

\* An upload only of the files that have no blob yet.
ChangedIfMissing(f) == dest_path(f) \notin DOMAIN store

\* Line 77: md5_hash != dest_md5
Changed(f) == md5_hash(f) # dest_md5(f)

\* What upload_blob(file_data, overwrite=True, content_settings=
\* ContentSettings(content_type=...)) leaves in the container: the data and
\* the content type sent.  No Content-MD5 is sent, so the stored one is the
\* store's: the digest of the data when the store computes it, none when it
\* does not (an upload committed as a block list).
Uploaded(f) ==
    { [data |-> tree[f], content_type |-> content_type(path(f)), content_md5 |-> m] :
        m \in {Some(md5(tree[f])), None} }

\* Next statement after one file's body: back to the walk.
FileDone(f, outcome) ==
    /\ out' = Put(out, f, outcome)
    /\ cur' = None
    /\ pc' = "walk"

\* An upload error that is printed and raised again.
ExceptUploadRaises(f) ==
    /\ out' = Put(out, f, "failed")
    /\ cur' = cur
    /\ pc' = "aborted"

\* Lines 82-83: the error of upload_blob is caught and printed, and the loop
\* goes on.
ExceptUpload(f) == FileDone(f, "failed")

\* Lines 77-79: the digests differ, upload_blob returns.
UploadDone ==
    /\ pc = "file"
    /\ Changed(TheFile)
    /\ \E b \in Uploaded(TheFile) : store' = Put(store, dest_path(TheFile), b)
    /\ uploadCalls' = Bump(uploadCalls, dest_path(TheFile))
    /\ FileDone(TheFile, "done")
    /\ UNCHANGED <<args, tree, files_to_keep, todo, listed, listing, delOut,
                   deleteCalls, run, hist>>

\* Lines 77-78, 82-83: the digests differ, upload_blob raises, the error is
\* caught and printed.
UploadFails ==
    /\ pc = "file"
    /\ Changed(TheFile)
    /\ uploadCalls' = Bump(uploadCalls, dest_path(TheFile))
    /\ ExceptUpload(TheFile)
    /\ UNCHANGED <<args, tree, store, files_to_keep, todo, listed, listing, delOut,
                   deleteCalls, run, hist>>

\* Lines 80-81: the digests are equal.
Skip ==
    /\ pc = "file"
    /\ ~Changed(TheFile)
    /\ FileDone(TheFile, "skipped")
    /\ UNCHANGED <<args, tree, store, files_to_keep, todo, listed, listing, delOut,
                   uploadCalls, deleteCalls, run, hist>>

----------------------------------------------------------------------------
(* Reconciliation phase.                                                   *)

\* A reconciliation that does not look at --sync.
SyncAlways == TRUE

\* Line 85: if args.sync
SyncEnabled == args.sync

\* Line 85 without --sync: the program ends.
Finish ==
    /\ pc = "walk" /\ todo = {}
    /\ ~SyncEnabled
    /\ pc' = "done"
    /\ UNCHANGED <<args, tree, store, files_to_keep, todo, cur, listed, listing, out,
                   delOut, uploadCalls, deleteCalls, run, hist>>

\* list_blobs(name_starts_with=dest)
Listed == {k \in DOMAIN store : StartsWith(k, dest)}

\* Lines 85-87: with --sync the blobs whose name starts with dest are listed.
ListBlobs ==
    /\ pc = "walk" /\ todo = {}
    /\ SyncEnabled
    /\ listed' = Listed
    /\ listing' = Listed
    /\ pc' = IF Listed = {} THEN "done" ELSE "sync"
    /\ UNCHANGED <<args, tree, store, files_to_keep, todo, cur, out, delOut,
                   uploadCalls, deleteCalls, run, hist>>

\* Line 87: list_blobs raises; nothing catches it.
ListFails ==
    /\ pc = "walk" /\ todo = {}
    /\ SyncEnabled
    /\ pc' = "aborted"
    /\ UNCHANGED <<args, tree, store, files_to_keep, todo, cur, listed, listing, out,
                   delOut, uploadCalls, deleteCalls, run, hist>>

\* The loop of line 87 moves on, and ends after the last listed blob.
NextListed(k) ==
    /\ listing' = listing \ {k}
    /\ pc' = IF listing \ {k} = {} THEN "done" ELSE "sync"

\* The test of line 88 inverted.
StaleInverted(k) == k \in files_to_keep

\* Line 88: file.name not in files_to_keep
Stale(k) == k \notin files_to_keep

\* Line 88 false: the blob is kept.
KeepBlob ==
    /\ pc = "sync"
    /\ \E k \in listing :
         /\ ~Stale(k)
         /\ NextListed(k)
    /\ UNCHANGED <<args, tree, store, files_to_keep, todo, cur, listed, out, delOut,
                   uploadCalls, deleteCalls, run, hist>>

\* Lines 88-93: the blob is deleted.
DeleteDone ==
    /\ pc = "sync"
    /\ \E k \in listing :
         /\ Stale(k)
         /\ store' = Remove(store, k)
         /\ deleteCalls' = Bump(deleteCalls, k)
         /\ delOut' = Put(delOut, k, "done")
         /\ NextListed(k)
    /\ UNCHANGED <<args, tree, files_to_keep, todo, cur, listed, out, uploadCalls,
                   run, hist>>

\* A delete error that is printed and raised again.
ExceptDeleteRaises(k) ==
    /\ delOut' = Put(delOut, k, "failed")
    /\ listing' = listing \ {k}
    /\ pc' = "aborted"

\* Lines 94-95: the error of delete_blob is caught and printed, and the loop
\* goes on.
ExceptDelete(k) ==
    /\ delOut' = Put(delOut, k, "failed")
    /\ NextListed(k)

\* Lines 88-92, 94-95: delete_blob raises, the error is caught and printed.
DeleteFails ==
    /\ pc = "sync"
    /\ \E k \in listing :
         /\ Stale(k)
         /\ deleteCalls' = Bump(deleteCalls, k)
         /\ ExceptDelete(k)
    /\ UNCHANGED <<args, tree, store, files_to_keep, todo, cur, listed, out,
                   uploadCalls, run, hist>>

----------------------------------------------------------------------------
\* The program is invoked again with the same command line on the same,
\* unchanged source tree; the container is as the last invocation left it.
Rerun ==
    /\ pc \in {"done", "aborted"}
    /\ run = 1
    /\ run' = 2
    /\ hist' = [clean |-> CleanRun, sound |-> SoundStore(store)]
    /\ files_to_keep' = {}
    /\ pc' = "walk"
    /\ todo' = DOMAIN tree
    /\ cur' = None
    /\ listed' = {} /\ listing' = {}
    /\ out' = NoCalls /\ delOut' = NoCalls
    /\ uploadCalls' = NoCalls /\ deleteCalls' = NoCalls
    /\ UNCHANGED <<args, tree, store>>

Next ==
    \/ VisitFile
    \/ OpenFails
    \/ PropertiesFail
    \/ UploadDone
    \/ UploadFails
    \/ Skip
    \/ Finish
    \/ ListBlobs
    \/ ListFails
    \/ KeepBlob
    \/ DeleteDone
    \/ DeleteFails

\* One invocation of the program.
Spec == Init /\ [][Next]_vars

NextTwice ==
    \/ Next
    \/ Rerun

\* Two invocations in a row.
SpecTwice == Init /\ [][NextTwice]_vars

----------------------------------------------------------------------------
(* Properties.                                                             *)

Files == DOMAIN tree
Reported(f) == f \in DOMAIN out
UploadFailed == \E f \in DOMAIN out : out[f] = "failed"
DeleteFailed == \E k \in DOMAIN delOut : delOut[k] = "failed"

\* The fingerprint the remote object of a file has: the stored one, and the
\* empty byte string for an object that does not exist.
RemoteFingerprint(f) ==
    IF dest_path(f) \in DOMAIN store
    THEN store[dest_path(f)].content_md5
    ELSE Some(<<>>)

\* C1: when a file has been compared, upload_blob was called for its
\* destination name exactly if its MD5 differs from the remote fingerprint
\* (the empty one for a missing blob): then once, and the file is reported
\* done or failed; otherwise not at all, the container is untouched and the
\* file is reported skipped.  No name ever gets a second upload call.
UploadIffChanged ==
    [][ /\ (pc = "file" /\ pc' = "walk") =>
             LET f == TheFile
                 k == dest_path(f)
             IN  IF Some(md5(tree[f])) # RemoteFingerprint(f)
                 THEN /\ Count(uploadCalls', k) = Count(uploadCalls, k) + 1
                      /\ out'[f] \in {"done", "failed"}
                 ELSE /\ uploadCalls' = uploadCalls
                      /\ store' = store
                      /\ out'[f] = "skipped"
        /\ \A k \in DOMAIN uploadCalls' : uploadCalls'[k] = 1
      ]_vars

\* C1 witness: an empty file whose blob was uploaded next to a skipped file.
UploadIffChangedWitness ==
    \E f, g \in DOMAIN out :
        /\ tree[f] = EmptyBytes /\ out[f] = "done"
        /\ Count(uploadCalls, dest_path(f)) = 1
        /\ out[g] = "skipped"
        /\ Count(uploadCalls, dest_path(g)) = 0

\* C2: in a second invocation after a first one that ended normally with no
\* upload failed, every file reported is reported skipped and upload_blob is
\* not called.
SecondRunSkipsAll ==
    (run = 2 /\ hist.clean) =>
        /\ \A f \in DOMAIN out : out[f] = "skipped"
        /\ DOMAIN uploadCalls = {}

\* C3: once a file is reported done, the blob of its destination name holds
\* the file's bytes, the content type resolved for the local path, and as
\* stored Content-MD5 the MD5 of those bytes.
UploadStoresAll ==
    \A f \in DOMAIN out :
        out[f] = "done" =>
            /\ dest_path(f) \in DOMAIN store
            /\ store[dest_path(f)].data = tree[f]
            /\ store[dest_path(f)].content_type = content_type(path(f))
            /\ store[dest_path(f)].content_md5 = Some(md5(tree[f]))

\* DEST as a directory: the names under it.
UnderDest(k) ==
    LET dir == IF dest[Len(dest)] = "/" THEN dest ELSE dest \o <<"/">>
    IN  StartsWith(k, dir) /\ Len(k) > Len(dir)

\* C9: with a non-empty DEST every blob delete_blob is called for lies under
\* DEST as a directory.
DeletesUnderDest ==
    dest # <<>> => \A k \in DOMAIN deleteCalls : UnderDest(k)

\* The listed blobs whose name is not in the keep-set.
StaleListed == {k \in listed : k \notin files_to_keep}

\* C4: with --sync, what list_blobs returned are names starting with dest,
\* and every blob left with such a name was listed; delete_blob is called
\* only for listed blobs whose name is not in the keep-set, and at the end
\* for every one of them; when no delete failed, the listed blobs left are
\* exactly those whose name is in the keep-set.
ReconcileExact ==
    (args.sync /\ pc \in {"sync", "done"}) =>
        /\ \A k \in listed : StartsWith(k, dest)
        /\ \A k \in DOMAIN store : StartsWith(k, dest) => k \in listed
        /\ DOMAIN deleteCalls \subseteq StaleListed
        /\ pc = "done" => DOMAIN deleteCalls = StaleListed
        /\ (pc = "done" /\ ~DeleteFailed) =>
               \A k \in listed : k \in DOMAIN store <=> k \in files_to_keep

\* C4 witness: a run that left a listed blob of the keep-set and deleted a
\* stale one.
ReconcileExactWitness ==
    /\ args.sync /\ pc = "done" /\ ~DeleteFailed
    /\ \E k \in listed : k \in files_to_keep /\ k \in DOMAIN store
    /\ \E k \in listed : k \notin files_to_keep /\ k \notin DOMAIN store

\* The files of the tree that have been yielded and are not being processed.
Processed == Files \ (todo \cup cur)

\* C5: a failed upload leaves the program in the walk, with the files still
\* to visit unchanged and the container untouched; and in every state the
\* files visited so far have each been reported.
UploadErrorIsolated ==
    /\ [][ (\E f \in Files : ~Reported(f) /\ Reported(f)' /\ out'[f] = "failed")
             => (pc' = "walk" /\ todo' = todo /\ store' = store) ]_vars
    /\ [](DOMAIN out = Processed)

\* C5 witness: the first file visited failed and a later one was uploaded.
UploadErrorIsolatedWitness ==
    \E f, g \in DOMAIN out :
        /\ f.dir = <<>> /\ out[f] = "failed"
        /\ g.dir # <<>> /\ out[g] = "done"

\* C6: the keep-set is the set of destination names of the files yielded so
\* far, whatever became of them; once the walk is over it has as many
\* entries as the tree has files.
KeepSetComplete ==
    /\ files_to_keep = {dest_path(f) : f \in Files \ todo}
    /\ todo = {} => Cardinality(files_to_keep) = Cardinality(Files)

\* C6 witness: the walk is over two files, one skipped and one failed.
KeepSetCompleteWitness ==
    /\ todo = {} /\ cur = None
    /\ Cardinality(files_to_keep) = 2
    /\ \E f, g \in DOMAIN out : out[f] = "skipped" /\ out[g] = "failed"

\* C7: delete_blob is called and a blob disappears only with --sync and
\* after every file of the tree has been processed; a run without --sync and
\* a run aborted by an uncaught error have called no delete_blob; the
\* reconciliation phase leaves the keep-set alone.
DeleteOnlyAfterUpload ==
    /\ [][ (deleteCalls' # deleteCalls \/ ~(DOMAIN store \subseteq DOMAIN store'))
             => (args.sync /\ todo = {} /\ cur = None /\ DOMAIN out = Files) ]_vars
    /\ [][ pc = "sync" => files_to_keep' = files_to_keep ]_vars
    /\ []((~args.sync \/ pc = "aborted") => DOMAIN deleteCalls = {})

\* C7 witness: a blob was deleted after two files had been processed.
DeleteOnlyAfterUploadWitness ==
    /\ Cardinality(DOMAIN out) = 2
    /\ \E k \in DOMAIN delOut : delOut[k] = "done"

\* C8: a failed delete leaves the blob in the container and the loop going;
\* at the end delete_blob has been called exactly once for every stale listed
\* blob, and never more than once for any blob.
DeleteErrorIsolated ==
    /\ [][ \A k \in listing :
             (k \notin DOMAIN delOut /\ k \in DOMAIN delOut' /\ delOut'[k] = "failed")
               => /\ store' = store
                  /\ listing' = listing \ {k}
                  /\ pc' = IF listing' = {} THEN "done" ELSE "sync" ]_vars
    /\ [](\A k \in DOMAIN deleteCalls : deleteCalls[k] = 1)
    /\ []((pc = "done" /\ args.sync) => DOMAIN deleteCalls = StaleListed)
    /\ [](\A k \in DOMAIN delOut : delOut[k] = "failed" => k \in DOMAIN store)

\* C8 witness: one delete failed and another stale blob was deleted.
DeleteErrorIsolatedWitness ==
    /\ pc = "done"
    /\ \E k1, k2 \in DOMAIN delOut :
         /\ delOut[k1] = "failed" /\ k1 \in DOMAIN store
         /\ delOut[k2] = "done" /\ k2 \notin DOMAIN store

\* The steps of a run in which no operation fails.
NextNoFailure ==
    \/ VisitFile
    \/ UploadDone
    \/ Skip
    \/ Finish
    \/ ListBlobs
    \/ KeepBlob
    \/ DeleteDone

\* The runs in which no operation fails.
SpecNoFailure == Init /\ [][NextNoFailure]_vars

\* A --sync run on a container whose stored fingerprints are all the MD5 of
\* the stored bytes.
MirrorRun == args.sync /\ hist.sound

\* The blobs whose name starts with dest are exactly the destination names
\* of the local files, each holding its file's bytes.
Mirrored ==
    /\ {k \in DOMAIN store : StartsWith(k, dest)} = {dest_path(f) : f \in Files}
    /\ \A f \in Files : store[dest_path(f)].data = tree[f]

====
